---- MODULE Spec2Model ----
(***************************************************************************)
(* Model of the table agent: the two-node execution graph built by         *)
(* agents/graph_agent.py (model node, tool node, conditional edge), the    *)
(* two data tools of tools/data_tools.py, and the model selector of        *)
(* agents/llm_detector.py.                                                 *)
(*                                                                         *)
(* The graph is declared as StateGraph(dict): the state schema carries no  *)
(* annotated keys, so the whole state is one last-value channel and what a *)
(* node returns REPLACES the state.  ToolNode is the prebuilt tool node    *)
(* with its defaults: a request naming no registered tool, and a tool that *)
(* raises, both become an error tool message.  The compiled graph runs     *)
(* under the library's default recursion limit, since no front end passes  *)
(* a config to invoke.                                                     *)
(***************************************************************************)
EXTENDS Integers, Sequences, FiniteSets, TLC

VARIABLES
    pc,            \* where the turn is: idle, llm, tools, done, failed
    state,         \* the graph state, a dict with the key "messages"
    step,          \* supersteps executed in this turn
    config,        \* the config argument the front end gave to invoke
    error,         \* the exception that ended the turn, or "none"
    writable,      \* environment: can the output directory be written
    modelCalls,    \* model invocations in this turn
    toolSteps,     \* executions of the tools node in this turn
    lastInputLen,  \* length of the message sequence handed to the model last
    lastResponse,  \* the model's last response
    sel,           \* the selector run: its inputs, and its result once made
    build,         \* the run of build_graph: its inputs, and what it made
    proc,          \* the command-line process
    ws,            \* the websocket server: its connections and their frames
    saved          \* what the compiled graph keeps from one turn to the next

vars == <<pc, state, step, config, error, writable, modelCalls, toolSteps,
          lastInputLen, lastResponse, sel, build, proc, ws, saved>>

\* The front ends, the start-up and what the graph keeps, which the graph's
\* nodes leave alone.
feVars == <<build, proc, ws, saved>>

agentVars == <<pc, state, step, config, error, writable, modelCalls,
               toolSteps, lastInputLen, lastResponse>>

(***************************************************************************)
(* Bounds and constants                                                    *)
(***************************************************************************)
MaxCalls == 2

DEFAULT_RECURSION_LIMIT == 25

NoConfig == "None"

NoId == <<>>

(***************************************************************************)
(* Messages                                                                *)
(***************************************************************************)
HumanMessage(content) ==
    [type |-> "human", content |-> content, tool_calls |-> <<>>,
     tool_call_id |-> NoId, status |-> "none"]

AIMessage(content, tool_calls) ==
    [type |-> "ai", content |-> content, tool_calls |-> tool_calls,
     tool_call_id |-> NoId, status |-> "none"]

ToolMessage(content, tool_call_id, status) ==
    [type |-> "tool", content |-> content, tool_calls |-> <<>>,
     tool_call_id |-> tool_call_id, status |-> status]

NoMessage == AIMessage(<<>>, <<>>)

Last(s) == s[Len(s)]

(***************************************************************************)
(* The tools.  A tool returns [raised, value]: the text it returns, or the *)
(* exception it raises.                                                    *)
(***************************************************************************)
OUTPUT_DIR == "/app/outputs"

\* pd.read_csv on the files of the environment: one good table, one file
\* that is not there, one that does not parse.
read_csv(file) ==
    CASE file = "sales.csv" ->
            [raised |-> FALSE, value |-> <<"df", file>>, columns |-> {"Date", "Value"}]
      [] file = "bad.csv" ->
            [raised |-> TRUE, value |-> <<"ParserError", file>>, columns |-> {}]
      [] OTHER ->
            [raised |-> TRUE, value |-> <<"FileNotFoundError", file>>, columns |-> {}]

_ensure_outputs_path(out, fallback, w) ==
    IF ~w
    THEN [raised |-> TRUE, value |-> <<"PermissionError", OUTPUT_DIR>>]
    ELSE [raised |-> FALSE,
          value |-> <<OUTPUT_DIR, IF out = "" THEN fallback ELSE out>>]

profile_table(file) ==
    LET df == read_csv(file)
    IN  IF df.raised
        THEN [raised |-> TRUE, value |-> df.value]
        ELSE [raised |-> FALSE, value |-> <<"describe", file>>]

plot_chart(file, x, y, out, w) ==
    LET df == read_csv(file)
        path == _ensure_outputs_path(out, "plot.png", w)
    IN  IF df.raised THEN [raised |-> TRUE, value |-> df.value]
        ELSE IF x \notin df.columns THEN [raised |-> TRUE, value |-> <<"KeyError", x>>]
        ELSE IF y \notin df.columns THEN [raised |-> TRUE, value |-> <<"KeyError", y>>]
        ELSE IF path.raised THEN path
        ELSE [raised |-> FALSE, value |-> <<"Saved plot to">> \o path.value]

tools == {"profile_table", "plot_chart"}

\* The out argument as the tool sees it: the declared default when the
\* request leaves it out.
Omitted == "<omitted>"

ArgOut(args) == IF args.out = Omitted THEN "plot.png" ELSE args.out

invoke_tool(call, w) ==
    IF call.name = "profile_table"
    THEN profile_table(call.args.file)
    ELSE plot_chart(call.args.file, call.args.x, call.args.y, ArgOut(call.args), w)

(***************************************************************************)
(* The graph of build_graph                                                *)
(***************************************************************************)

\* ToolNode's handling of a tool that raises: by default the exception is
\* caught and becomes the text of the tool message.
handle_tool_errors_off == FALSE

handle_tool_errors == TRUE

\* One request of the tools node.  [raised, message]: the tool message that
\* answers the request, or the exception that leaves the node.
run_one(call, w) ==
    IF call.name \notin tools
    THEN [raised |-> FALSE,
          message |-> ToolMessage(<<"Error: not a valid tool", call.name>>,
                                  call.id, "error")]
    ELSE LET r == invoke_tool(call, w)
         IN  IF ~r.raised
             THEN [raised |-> FALSE,
                   message |-> ToolMessage(r.value, call.id, "success")]
             ELSE IF handle_tool_errors
             THEN [raised |-> FALSE,
                   message |-> ToolMessage(<<"Error">> \o r.value, call.id, "error")]
             ELSE [raised |-> TRUE,
                   message |-> ToolMessage(r.value, call.id, "error")]

\* tool_node: runs the requests of the last message of the state, in order,
\* and returns one tool message per request.
tool_node(s, w) ==
    LET calls == Last(s.messages).tool_calls
        outs  == [i \in 1..Len(calls) |-> run_one(calls[i], w)]
    IN  [raised   |-> \E i \in 1..Len(calls) : outs[i].raised,
         messages |-> [i \in 1..Len(calls) |-> outs[i].message]]

\* tools_condition: the branch taken after the model node.
tools_condition_always(s) == "tools"

tools_condition(s) ==
    IF Len(s.messages) > 0 /\ Len(Last(s.messages).tool_calls) > 0
    THEN "tools"
    ELSE "done"

\* The state's only channel holds the last value written: a node's return
\* value replaces the state.
channel_update(old, update) == update

\* The requests a model stub can make.
Args(file, x, y, out) == [file |-> file, x |-> x, y |-> y, out |-> out]

Requests ==
    { [name |-> "profile_table", args |-> Args("sales.csv", "", "", "")],
      [name |-> "profile_table", args |-> Args("nofile.csv", "", "", "")],
      [name |-> "plot_chart", args |-> Args("sales.csv", "Date", "Value", Omitted)],
      [name |-> "plot_chart", args |-> Args("sales.csv", "Date", "Nope", Omitted)],
      [name |-> "foo", args |-> Args("sales.csv", "", "", "")] }

RequestSeqs == UNION { [1..n -> Requests] : n \in 0..MaxCalls }

\* The model client tags each request of its k-th response with a fresh id.
WithIds(reqs, k) ==
    [i \in 1..Len(reqs) |->
        [name |-> reqs[i].name, args |-> reqs[i].args, id |-> <<k, i>>]]

AgentInit ==
    /\ pc = "idle"
    /\ state = [messages |-> <<>>]
    /\ step = 0
    /\ config = NoConfig
    /\ error = "none"
    /\ writable \in BOOLEAN
    /\ modelCalls = 0
    /\ toolSteps = 0
    /\ lastInputLen = 0
    /\ lastResponse = NoMessage

\* The limit of supersteps in force for a turn.
recursion_limit ==
    IF config = NoConfig THEN DEFAULT_RECURSION_LIMIT ELSE config

\* graph.compile() is given no checkpointer: the graph keeps nothing of the
\* state a turn ended in.
checkpoint_kept(final) == final

checkpoint_last(final) ==
    IF final.messages = <<>> THEN final
    ELSE [messages |-> <<final.messages[Len(final.messages)]>>]

checkpoint(final) == [messages |-> <<>>]

\* The state an invocation starts in: what the graph kept, then the input.
initial_state(kept, input) == [messages |-> kept.messages \o input.messages]

\* graph.invoke(input), no config given
StartTurn(input) ==
    /\ pc = "idle"
    /\ pc' = "llm"
    /\ state' = initial_state(saved, input)
    /\ config' = NoConfig
    /\ step' = 0
    /\ error' = "none"
    /\ modelCalls' = 0
    /\ toolSteps' = 0
    /\ lastInputLen' = 0
    /\ lastResponse' = NoMessage

\* app_graph.invoke({"messages": [HumanMessage(content=prompt)]})
Invoke ==
    /\ StartTurn([messages |-> <<HumanMessage(<<"prompt">>)>>])
    /\ UNCHANGED <<writable, sel, feVars>>

\* The connections whose messages a text derives from: the marks a content
\* carries, and those of a sequence of messages.
Marks == {"c1", "c2"}

MarksOf(content) == {content[i] : i \in 1..Len(content)} \cap Marks

MarksIn(messages) ==
    UNION {MarksOf(messages[i].content) : i \in 1..Len(messages)}

\* The text of a response: it derives from the messages the model is given.
Reply(messages) ==
    <<"text">> \o (IF "c1" \in MarksIn(messages) THEN <<"c1">> ELSE <<>>)
               \o (IF "c2" \in MarksIn(messages) THEN <<"c2">> ELSE <<>>)

\* The node "llm" with a model client that answers with one of the given
\* sequences of requests.
LlmStep(seqs) ==
    /\ pc = "llm"
    /\ step < recursion_limit
    /\ \E reqs \in seqs :
          LET response == AIMessage(Reply(state.messages),
                                    WithIds(reqs, modelCalls + 1))
              new == channel_update(state, [messages |-> <<response>>])
          IN  /\ lastInputLen' = Len(state.messages)
              /\ lastResponse' = response
              /\ state' = new
              /\ pc' = tools_condition(new)
    /\ modelCalls' = modelCalls + 1
    /\ step' = step + 1
    /\ UNCHANGED <<config, error, writable, toolSteps, sel, feVars>>

\* The node "llm": model_with_tools.invoke(s["messages"]) returns a response.
LlmNode == LlmStep(RequestSeqs)

\* The node "llm" when the model client raises.
LlmRaises ==
    /\ pc = "llm"
    /\ step < recursion_limit
    /\ lastInputLen' = Len(state.messages)
    /\ modelCalls' = modelCalls + 1
    /\ pc' = "failed"
    /\ error' = "ProviderError"
    /\ UNCHANGED <<state, step, config, writable, toolSteps, lastResponse, sel, feVars>>

\* The node "tools".
ToolNode ==
    /\ pc = "tools"
    /\ step < recursion_limit
    /\ LET out == tool_node(state, writable)
       IN  IF out.raised
           THEN /\ pc' = "failed"
                /\ error' = "ToolException"
                /\ UNCHANGED state
           ELSE /\ pc' = "llm"
                /\ state' = channel_update(state, [messages |-> out.messages])
                /\ UNCHANGED error
    /\ toolSteps' = toolSteps + 1
    /\ step' = step + 1
    /\ UNCHANGED <<config, writable, modelCalls, lastInputLen, lastResponse, sel, feVars>>

\* A node is due and the limit of supersteps is used up.
RecursionLimit ==
    /\ pc \in {"llm", "tools"}
    /\ step >= recursion_limit
    /\ pc' = "failed"
    /\ error' = "GraphRecursionError"
    /\ UNCHANGED <<state, step, config, writable, modelCalls, toolSteps,
                   lastInputLen, lastResponse, sel, feVars>>

\* The turn is over; the environment may change before the next one.
Return ==
    /\ pc \in {"done", "failed"}
    /\ pc' = "idle"
    /\ writable' \in BOOLEAN
    /\ saved' = checkpoint(state)
    /\ UNCHANGED <<state, step, config, error, modelCalls, toolSteps,
                   lastInputLen, lastResponse, sel, build, proc, ws>>

SelIdle == [phase |-> "off"]

\* No build_graph run, no command-line process and no websocket server.
FrontIdle ==
    /\ build = [phase |-> "off"]
    /\ proc = [pc |-> "off"]
    /\ ws = [phase |-> "off"]
    /\ saved = [messages |-> <<>>]

Init == AgentInit /\ sel = SelIdle /\ FrontIdle

Next ==
    \/ Invoke
    \/ LlmNode
    \/ LlmRaises
    \/ ToolNode
    \/ RecursionLimit
    \/ Return

Spec == Init /\ [][Next]_vars

(***************************************************************************)
(* The model selector of agents/llm_detector.py.  Model names are          *)
(* sequences of characters, so that split and startswith are computed.     *)
(***************************************************************************)

\* Models that support tool calling, for the local provider.
TOOL_CAPABLE_MODELS_ollama ==
    << <<"l", "l", "a", "m", "a", "3", ".", "1", ":", "8", "b">>,
       <<"l", "l", "a", "m", "a", "3", ".", "1", ":", "7", "0", "b">>,
       <<"l", "l", "a", "m", "a", "3", ".", "1">>,
       <<"l", "l", "a", "m", "a", "3", ".", "2">>,
       <<"l", "l", "a", "m", "a", "3", ".", "2", ":", "1", "b">>,
       <<"l", "l", "a", "m", "a", "3", ".", "2", ":", "3", "b">>,
       <<"q", "w", "e", "n", "2", ".", "5", ":", "7", "b">>,
       <<"q", "w", "e", "n", "2", ".", "5", ":", "1", "4", "b">>,
       <<"q", "w", "e", "n", "2", ".", "5", ":", "3", "2", "b">>,
       <<"q", "w", "e", "n", "2", ".", "5", ":", "7", "2", "b">>,
       <<"m", "i", "s", "t", "r", "a", "l", ":", "7", "b", "-", "i", "n", "s", "t", "r", "u", "c", "t">>,
       <<"m", "i", "x", "t", "r", "a", "l", ":", "8", "x", "7", "b">>,
       <<"c", "o", "m", "m", "a", "n", "d", "-", "r", ":", "3", "5", "b">>,
       <<"c", "o", "m", "m", "a", "n", "d", "-", "r", "-", "p", "l", "u", "s", ":", "1", "0", "4", "b">>,
       <<"f", "i", "r", "e", "f", "u", "n", "c", "t", "i", "o", "n", "-", "v", "2">>,
       <<"n", "o", "u", "s", "-", "h", "e", "r", "m", "e", "s", "2", ":", "1", "0", ".", "7", "b">>,
       <<"n", "o", "u", "s", "-", "h", "e", "r", "m", "e", "s", "2", "-", "m", "i", "x", "t", "r", "a", "l", ":", "8", "x", "7", "b">> >>

\* Provider names; NoProvider is the None of a selection that found nothing.
P_ollama == <<"o", "l", "l", "a", "m", "a">>

P_openai == <<"o", "p", "e", "n", "a", "i">>

P_anthropic == <<"a", "n", "t", "h", "r", "o", "p", "i", "c">>

P_azure_openai == <<"a", "z", "u", "r", "e", "_", "o", "p", "e", "n", "a", "i">>

NoProvider == <<"None">>

gpt_4o_mini == <<"g", "p", "t", "-", "4", "o", "-", "m", "i", "n", "i">>

claude_3_haiku == <<"c", "l", "a", "u", "d", "e", "-", "3", "-", "h", "a", "i", "k", "u", "-", "2", "0", "2", "4", "0", "3", "0", "7">>

custom_model == <<"c", "u", "s", "t", "o", "m", "-", "m", "o", "d", "e", "l">>

\* The models detect_system_capacity recommends.
RecommendedModels ==
    { <<"l", "l", "a", "m", "a", "3", ".", "1", ":", "7", "0", "b">>,
      <<"q", "w", "e", "n", "2", ".", "5", ":", "1", "4", "b">>,
      <<"q", "w", "e", "n", "2", ".", "5", ":", "7", "b">>,
      <<"l", "l", "a", "m", "a", "3", ".", "2", ":", "3", "b">>,
      <<"l", "l", "a", "m", "a", "3", ".", "2", ":", "1", "b">> }

\* Names a local runtime may list.
LocalNames ==
    { <<"q", "w", "e", "n", "2", ".", "5", ":", "1", "4", "b">>,
      <<"Q", "w", "e", "n", "2", ".", "5", ":", "7", "b">>,
      <<"m", "i", "s", "t", "r", "a", "l", ":", "7", "b">> }

MaxLocal == 2

\* str.startswith
startswith_exact(str, prefix) == str = prefix

startswith(str, prefix) ==
    /\ Len(prefix) <= Len(str)
    /\ \A i \in 1..Len(prefix) : str[i] = prefix[i]

\* str.split(sep)[0]: the part of str before the first sep
RECURSIVE split0(_, _)
split0(str, sep) ==
    IF str = <<>> \/ Head(str) = sep
    THEN <<>>
    ELSE <<Head(str)>> \o split0(Tail(str), sep)

\* sub in str
contains(str, sub) ==
    \E k \in 0..(Len(str) - Len(sub)) :
        \A i \in 1..Len(sub) : str[k + i] = sub[i]

\* os.getenv: None, or the string the variable is set to
None == [set |-> FALSE, value |-> <<>>]

Str(v) == [set |-> TRUE, value |-> v]

\* Python truth of an optional string
truthy(v) == v.set /\ v.value # <<>>

\* A for loop that returns at the first element whose test holds: the
\* index of that element, or 0 when the loop runs out.
RECURSIVE first_index(_, _)
first_index(tests, i) ==
    IF i > Len(tests) THEN 0
    ELSE IF tests[i] THEN i
    ELSE first_index(tests, i + 1)

\* can_connect_ollama: GET /api/tags answers 200
can_connect_ollama(server) == server.tags = "200"

\* pull_ollama_model: TRUE when the model is listed already, and otherwise
\* whenever the pull request and the reading of its answer raise nothing.
pull_ollama_model(model_name, server) ==
    IF server.tags = "exception" THEN FALSE
    ELSE IF server.tags = "200"
            /\ \E i \in 1..Len(server.existing) : contains(server.existing[i], model_name)
    THEN TRUE
    ELSE server.pull # "exception"

Ret(provider, model, probed, pulled) ==
    [provider |-> provider, model |-> model, probed |-> probed, pulled |-> pulled]

select_local_if_preferred(available_llms, system_capacity, prefer_local, server) ==
    IF prefer_local /\ available_llms.ollama # <<>>
    THEN Ret(P_ollama, available_llms.ollama[1], FALSE, FALSE)
    ELSE Ret(NoProvider, <<>>, FALSE, FALSE)

\* The local part of select_best_model, lines 198-232.
select_local(available_llms, system_capacity, prefer_local, server) ==
    LET ollama == available_llms.ollama
        recommended == system_capacity.recommended_model
        IsRecommended(model) == startswith(model, split0(recommended, ":"))
        IsToolCapable(model) ==
            \E k \in 1..Len(TOOL_CAPABLE_MODELS_ollama) :
                startswith(model, split0(TOOL_CAPABLE_MODELS_ollama[k], ":"))
        byRecommended ==
            first_index([i \in 1..Len(ollama) |-> IsRecommended(ollama[i])], 1)
        byCatalog ==
            first_index([i \in 1..Len(ollama) |-> IsToolCapable(ollama[i])], 1)
        probed == ollama = <<>>
        pulled == probed /\ can_connect_ollama(server)
    IN  IF ollama # <<>> /\ byRecommended > 0
            THEN Ret(P_ollama, ollama[byRecommended], FALSE, FALSE)
        ELSE IF ollama # <<>> /\ byCatalog > 0
            THEN Ret(P_ollama, ollama[byCatalog], FALSE, FALSE)
        ELSE IF ollama # <<>>
            THEN Ret(P_ollama, ollama[1], FALSE, FALSE)
        ELSE IF pulled /\ pull_ollama_model(recommended, server)
            THEN Ret(P_ollama, recommended, probed, pulled)
        ELSE IF prefer_local /\ available_llms.openai
            THEN Ret(P_openai, gpt_4o_mini, probed, pulled)
        ELSE IF prefer_local /\ available_llms.anthropic
            THEN Ret(P_anthropic, claude_3_haiku, probed, pulled)
        ELSE Ret(NoProvider, <<>>, probed, pulled)

\* The override test of select_best_model, line 183.
override_ignored(env) == FALSE

override_either(env) == truthy(env.LLM_PROVIDER) \/ truthy(env.LLM_MODEL)

override(env) == truthy(env.LLM_PROVIDER) /\ truthy(env.LLM_MODEL)

\* The remote priority of select_best_model, lines 187-196: the provider
\* taken, or "None".
remote_first_reversed(available_llms) ==
    IF available_llms.azure_openai THEN P_azure_openai
    ELSE IF available_llms.anthropic THEN P_anthropic
    ELSE IF available_llms.openai THEN P_openai
    ELSE NoProvider

remote_first_unchecked(available_llms) == P_openai

remote_first(available_llms) ==
    IF available_llms.openai THEN P_openai
    ELSE IF available_llms.anthropic THEN P_anthropic
    ELSE IF available_llms.azure_openai THEN P_azure_openai
    ELSE NoProvider

default_model(provider) ==
    IF provider = P_anthropic THEN claude_3_haiku ELSE gpt_4o_mini

select_best_model(env, available_llms, system_capacity, prefer_local, server) ==
    IF override(env)
    THEN Ret(env.LLM_PROVIDER.value, env.LLM_MODEL.value, FALSE, FALSE)
    ELSE IF ~prefer_local /\ remote_first(available_llms) # NoProvider
    THEN Ret(remote_first(available_llms),
             default_model(remote_first(available_llms)), FALSE, FALSE)
    ELSE select_local(available_llms, system_capacity, prefer_local, server)

(***************************************************************************)
(* The selector run on every input of the bounded sets                     *)
(***************************************************************************)
LocalLists == UNION { [1..n -> LocalNames] : n \in 0..MaxLocal }

Servers ==
    [tags : {"exception", "500"}, existing : {<<>>}, pull : {"exception"}]
    \cup [tags : {"200"},
          existing : {<<>>, << <<"q", "w", "e", "n", "2", ".", "5", ":", "1", "4", "b", "-", "i", "n", "s", "t", "r", "u", "c", "t">> >>},
          pull : {"success", "error_body", "exception"}]

Envs ==
    [LLM_PROVIDER : {None, Str(<<>>), Str(P_ollama)},
     LLM_MODEL : {None, Str(<<>>), Str(custom_model)}]

Availabilities ==
    [ollama : LocalLists, openai : BOOLEAN, anthropic : BOOLEAN,
     azure_openai : BOOLEAN]

Capacities == [recommended_model : RecommendedModels]

SelInit ==
    /\ AgentInit
    /\ FrontIdle
    /\ writable = TRUE
    /\ sel \in [phase : {"ready"}, env : Envs, available_llms : Availabilities,
                system_capacity : Capacities, prefer_local : BOOLEAN,
                server : Servers]

\* provider, model = select_best_model(available_llms, system_capacity, prefer_local)
SelectBestModel ==
    /\ sel.phase = "ready"
    /\ sel' = [phase |-> "selected", env |-> sel.env,
               available_llms |-> sel.available_llms,
               system_capacity |-> sel.system_capacity,
               prefer_local |-> sel.prefer_local, server |-> sel.server,
               result |-> select_best_model(sel.env, sel.available_llms,
                              sel.system_capacity, sel.prefer_local, sel.server)]
    /\ UNCHANGED <<agentVars, feVars>>

SelNext == SelectBestModel

SpecSel == SelInit /\ [][SelNext]_vars

(***************************************************************************)
(* The start-up: get_llm_config and check_tool_support of                  *)
(* agents/llm_detector.py, get_llm_instance of agents/llm_factory.py and   *)
(* build_graph of agents/graph_agent.py.                                   *)
(***************************************************************************)

\* Models that support tool calling, for the remote providers.
TOOL_CAPABLE_MODELS_openai ==
    << <<"g", "p", "t", "-", "4">>,
       <<"g", "p", "t", "-", "4", "-", "t", "u", "r", "b", "o">>,
       <<"g", "p", "t", "-", "4", "o">>,
       <<"g", "p", "t", "-", "4", "o", "-", "m", "i", "n", "i">>,
       <<"g", "p", "t", "-", "3", ".", "5", "-", "t", "u", "r", "b", "o">>,
       <<"g", "p", "t", "-", "3", ".", "5", "-", "t", "u", "r", "b", "o", "-", "0", "1", "2", "5">> >>

TOOL_CAPABLE_MODELS_anthropic ==
    << <<"c", "l", "a", "u", "d", "e", "-", "3", "-", "o", "p", "u", "s", "-", "2", "0", "2", "4", "0", "2", "2", "9">>,
       <<"c", "l", "a", "u", "d", "e", "-", "3", "-", "s", "o", "n", "n", "e", "t", "-", "2", "0", "2", "4", "0", "2", "2", "9">>,
       <<"c", "l", "a", "u", "d", "e", "-", "3", "-", "h", "a", "i", "k", "u", "-", "2", "0", "2", "4", "0", "3", "0", "7">>,
       <<"c", "l", "a", "u", "d", "e", "-", "2", ".", "1">>,
       <<"c", "l", "a", "u", "d", "e", "-", "2", ".", "0">> >>

\* The keys of TOOL_CAPABLE_MODELS.
TOOL_CAPABLE_MODELS_keys == {P_ollama, P_openai, P_anthropic}

\* TOOL_CAPABLE_MODELS[provider]
TOOL_CAPABLE_MODELS(provider) ==
    IF provider = P_ollama THEN TOOL_CAPABLE_MODELS_ollama
    ELSE IF provider = P_openai THEN TOOL_CAPABLE_MODELS_openai
    ELSE IF provider = P_anthropic THEN TOOL_CAPABLE_MODELS_anthropic
    ELSE <<>>

check_tool_support(provider, model_name) ==
    LET catalog == TOOL_CAPABLE_MODELS(provider)
    IN  IF provider \in TOOL_CAPABLE_MODELS_keys
        THEN IF provider = P_ollama
             THEN \E k \in 1..Len(catalog) :
                      startswith(model_name, split0(catalog[k], ":"))
             ELSE \E k \in 1..Len(catalog) :
                      startswith(model_name, split0(catalog[k], "-"))
        ELSE FALSE

\* get_llm_config: the selection, and ValueError when it found no provider
\* or no model.
get_llm_config(env, available_llms, system_capacity, prefer_local, server) ==
    LET r == select_best_model(env, available_llms, system_capacity,
                               prefer_local, server)
    IN  IF r.provider = NoProvider \/ r.provider = <<>> \/ r.model = <<>>
        THEN [raised |-> TRUE, provider |-> r.provider, model |-> r.model,
              supports_tools |-> FALSE]
        ELSE [raised |-> FALSE, provider |-> r.provider, model |-> r.model,
              supports_tools |-> check_tool_support(r.provider, r.model)]

\* os.getenv(name, default)
getenv(v, default) == IF v.set THEN v.value ELSE default

qwen2_5_7b == <<"q", "w", "e", "n", "2", ".", "5", ":", "7", "b">>

\* get_llm_instance: the client of the provider, ImportError when the
\* provider's package is not installed, ValueError when its key is not set
\* or the provider is not one of the four.
get_llm_instance(provider, model_name, available_llms, importable) ==
    LET client == [raised |-> FALSE, provider |-> provider, model |-> model_name]
        failure == [raised |-> TRUE, provider |-> provider, model |-> model_name]
    IN  IF provider = P_ollama
            THEN IF importable THEN client ELSE failure
        ELSE IF provider = P_openai
            THEN IF importable /\ available_llms.openai THEN client ELSE failure
        ELSE IF provider = P_anthropic
            THEN IF importable /\ available_llms.anthropic THEN client ELSE failure
        ELSE IF provider = P_azure_openai
            THEN IF importable /\ available_llms.azure_openai THEN client ELSE failure
        ELSE failure

\* Lines 49-58 of build_graph: the client the model node uses.
bind_or_raise(model, supports_tools, bind) ==
    IF ~supports_tools
    THEN [raised |-> FALSE, client |-> model, tools |-> FALSE]
    ELSE [raised |-> bind = "raises", client |-> model, tools |-> bind = "ok"]

model_with_tools(model, supports_tools, bind) ==
    IF ~supports_tools
    THEN [raised |-> FALSE, client |-> model, tools |-> FALSE]
    ELSE [raised |-> FALSE, client |-> model, tools |-> bind = "ok"]

\* What a local runtime lists, and how it answers, at start-up.
BuildLocalLists ==
    { <<>>,
      << <<"q", "w", "e", "n", "2", ".", "5", ":", "1", "4", "b">> >>,
      << <<"Q", "w", "e", "n", "2", ".", "5", ":", "7", "b">> >> }

BuildServers ==
    { [tags |-> "exception", existing |-> <<>>, pull |-> "exception"],
      [tags |-> "200", existing |-> <<>>, pull |-> "success"],
      [tags |-> "200", existing |-> <<>>, pull |-> "exception"] }

BuildAvailabilities ==
    [ollama : BuildLocalLists, openai : BOOLEAN, anthropic : BOOLEAN,
     azure_openai : BOOLEAN]

NoLlmConfig ==
    [raised |-> FALSE, provider |-> NoProvider, model |-> <<>>,
     supports_tools |-> FALSE]

NoClient == [raised |-> FALSE, provider |-> NoProvider, model |-> <<>>]

NoBinding == [raised |-> FALSE, client |-> NoClient, tools |-> FALSE]

BuildInit ==
    /\ AgentInit
    /\ writable = TRUE
    /\ sel = SelIdle
    /\ proc = [pc |-> "off"]
    /\ ws = [phase |-> "off"]
    /\ saved = [messages |-> <<>>]
    /\ \E env \in Envs, available_llms \in BuildAvailabilities,
          prefer_local \in BOOLEAN, server \in BuildServers,
          importable \in BOOLEAN, bind \in {"ok", "raises"} :
           build = [phase |-> "start", env |-> env,
                    available_llms |-> available_llms,
                    system_capacity |-> [recommended_model |-> qwen2_5_7b],
                    prefer_local |-> prefer_local, server |-> server,
                    importable |-> importable, bind |-> bind,
                    config |-> NoLlmConfig,
                    provider |-> NoProvider, model_name |-> <<>>,
                    supports_tools |-> FALSE, model |-> NoClient,
                    model_with_tools |-> NoBinding, graph |-> "None"]

\* Lines 13-41 of build_graph: the configuration, or the manual one when
\* get_llm_config raised.
GetLlmConfig ==
    /\ build.phase = "start"
    /\ LET llm_config == get_llm_config(build.env, build.available_llms,
                              build.system_capacity, build.prefer_local,
                              build.server)
       IN  build' = IF llm_config.raised
                    THEN [build EXCEPT !.phase = "configured",
                              !.config = llm_config,
                              !.provider = getenv(build.env.LLM_PROVIDER, P_ollama),
                              !.model_name = getenv(build.env.LLM_MODEL, qwen2_5_7b),
                              !.supports_tools = TRUE]
                    ELSE [build EXCEPT !.phase = "configured",
                              !.config = llm_config,
                              !.provider = llm_config.provider,
                              !.model_name = llm_config.model,
                              !.supports_tools = llm_config.supports_tools]
    /\ UNCHANGED <<agentVars, sel, proc, ws, saved>>

\* Line 44 of build_graph; an exception of get_llm_instance leaves
\* build_graph.
GetLlmInstance ==
    /\ build.phase = "configured"
    /\ LET model == get_llm_instance(build.provider, build.model_name,
                         build.available_llms, build.importable)
       IN  build' = [build EXCEPT !.phase = IF model.raised THEN "raised"
                                                            ELSE "client",
                                  !.model = model]
    /\ UNCHANGED <<agentVars, sel, proc, ws, saved>>

\* Lines 47-58 of build_graph.
BindTools ==
    /\ build.phase = "client"
    /\ LET bound == model_with_tools(build.model, build.supports_tools,
                                     build.bind)
       IN  build' = [build EXCEPT !.phase = IF bound.raised THEN "raised"
                                                            ELSE "bound",
                                  !.model_with_tools = bound]
    /\ UNCHANGED <<agentVars, sel, proc, ws, saved>>

\* Lines 61-70 of build_graph: the compiled graph, named by the client of
\* its model node.
Compile ==
    /\ build.phase = "bound"
    /\ build' = [build EXCEPT !.phase = "returned", !.graph = "compiled"]
    /\ UNCHANGED <<agentVars, sel, proc, ws, saved>>

BuildNext ==
    \/ GetLlmConfig
    \/ GetLlmInstance
    \/ BindTools
    \/ Compile

SpecBuild == BuildInit /\ [][BuildNext]_vars

(***************************************************************************)
(* Two calls of the selector on the same availability, capacity and        *)
(* prefer_local, with no override; the environment and the answers of the  *)
(* local runtime are those of each call.                                   *)
(***************************************************************************)
NoOverrideEnvs == {env \in Envs : ~override(env)}

TwoInit ==
    /\ AgentInit
    /\ FrontIdle
    /\ writable = TRUE
    /\ sel \in [phase : {"ready2"}, available_llms : BuildAvailabilities,
                system_capacity : Capacities, prefer_local : BOOLEAN,
                env : {[LLM_PROVIDER |-> None, LLM_MODEL |-> None]},
                server : Servers,
                env2 : NoOverrideEnvs, server2 : BuildServers]

\* select_best_model(available_llms, system_capacity, prefer_local), twice
SelectTwice ==
    /\ sel.phase = "ready2"
    /\ sel' = [phase |-> "selected2", env |-> sel.env, env2 |-> sel.env2,
               available_llms |-> sel.available_llms,
               system_capacity |-> sel.system_capacity,
               prefer_local |-> sel.prefer_local,
               server |-> sel.server, server2 |-> sel.server2,
               result |-> select_best_model(sel.env, sel.available_llms,
                              sel.system_capacity, sel.prefer_local, sel.server),
               result2 |-> select_best_model(sel.env2, sel.available_llms,
                              sel.system_capacity, sel.prefer_local, sel.server2)]
    /\ UNCHANGED <<agentVars, feVars>>

TwoNext == SelectTwice

SpecTwo == TwoInit /\ [][TwoNext]_vars

(***************************************************************************)
(* The command line of main.py: run, chat and test.  A turn of run and     *)
(* chat is a turn of the graph above.                                      *)
(***************************************************************************)

\* The sequences of requests a model client answers with at a front end.
FrontRequestSeqs ==
    { <<>>,
      << [name |-> "profile_table", args |-> Args("sales.csv", "", "", "")] >>,
      << [name |-> "foo", args |-> Args("sales.csv", "", "", "")] >> }

\* The node "llm" of the graph a front end runs.
FrontLlmNode == LlmStep(FrontRequestSeqs)

\* The names agents/graph_agent.py defines or imports that main.py asks for.
graph_agent_names == {"build_graph"}

\* from agents.graph_agent import name: TRUE when it raises no ImportError
import_from(name, importable) == importable /\ name \in graph_agent_names

\* The probe of run and chat: GET /api/tags raises or answers other than 200
probe_never_fails(tags) == FALSE

probe_fails(tags) == tags # "200"

\* sys.exit(code), or the end of the command, after the last thing printed
Exit(p, code, out) == [p EXCEPT !.pc = "exited", !.exit = code, !.out = out]

CliInit ==
    /\ AgentInit
    /\ sel = SelIdle
    /\ build = [phase |-> "off"]
    /\ ws = [phase |-> "off"]
    /\ saved = [messages |-> <<>>]
    /\ proc \in [cmd : {"run", "chat", "test"}, pc : {"probe"},
                 tags : {"200", "500", "exception"}, importable : BOOLEAN,
                 build_raises : BOOLEAN, model_listed : BOOLEAN,
                 has_errors : {FALSE}, exit : {"running"}, out : {"none"},
                 ranTurn : {FALSE}]

\* run, lines 18-31, and chat, lines 56-63
CliProbe ==
    /\ proc.cmd \in {"run", "chat"}
    /\ proc.pc = "probe"
    /\ proc' = IF probe_fails(proc.tags)
               THEN Exit(proc, "1", "error")
               ELSE [proc EXCEPT !.pc = "import"]
    /\ UNCHANGED <<agentVars, sel, build, ws, saved>>

\* from agents.graph_agent import build_graph, lines 34 and 66
CliImport ==
    /\ proc.pc = "import"
    /\ proc' = IF import_from("build_graph", proc.importable)
               THEN [proc EXCEPT !.pc = "build"]
               ELSE Exit(proc, "1", "error")
    /\ UNCHANGED <<agentVars, sel, build, ws, saved>>

\* app_graph = build_graph(), lines 36 and 68
CliBuildGraph ==
    /\ proc.pc = "build"
    /\ proc' = IF proc.build_raises
               THEN Exit(proc, "1", "error")
               ELSE [proc EXCEPT !.pc = IF proc.cmd = "run" THEN "invoke"
                                                             ELSE "prompt"]
    /\ UNCHANGED <<agentVars, sel, build, ws, saved>>

\* chat, lines 71-74: a line is read; input() raises at the end of input
ChatPrompt ==
    /\ proc.pc = "prompt"
    /\ \E line \in {"exit", "text", "EOFError"} :
          proc' = IF line = "exit" THEN Exit(proc, "0", "goodbye")
                  ELSE IF line = "text" THEN [proc EXCEPT !.pc = "invoke"]
                  ELSE Exit(proc, "1", "error")
    /\ UNCHANGED <<agentVars, sel, build, ws, saved>>

\* app_graph.invoke({"messages": [HumanMessage(content=prompt)]}),
\* lines 37 and 76
CliInvoke ==
    /\ proc.pc = "invoke"
    /\ StartTurn([messages |-> <<HumanMessage(<<"prompt">>)>>])
    /\ proc' = [proc EXCEPT !.pc = "turn", !.ranTurn = TRUE]
    /\ UNCHANGED <<writable, sel, build, ws, saved>>

\* The turn is over: run, lines 38-46, and chat, lines 77-80
CliResult ==
    /\ proc.pc = "turn"
    /\ pc \in {"done", "failed"}
    /\ pc' = "idle"
    /\ saved' = checkpoint(state)
    /\ proc' = IF pc = "failed" THEN Exit(proc, "1", "error")
               ELSE IF proc.cmd = "run" THEN Exit(proc, "0", "result")
               ELSE [proc EXCEPT !.pc = "prompt", !.out = "result"]
    /\ UNCHANGED <<state, step, config, error, writable, modelCalls,
                   toolSteps, lastInputLen, lastResponse, sel, build, ws>>

\* test, lines 122-155: an ImportError of line 138 is caught nowhere
TestProbe ==
    /\ proc.cmd = "test"
    /\ proc.pc = "probe"
    /\ proc' = IF proc.tags = "200"
               THEN IF import_from("TOOL_CAPABLE_MODELS", proc.importable)
                    THEN [proc EXCEPT !.pc = "imports",
                                      !.has_errors = ~proc.model_listed]
                    ELSE Exit([proc EXCEPT !.has_errors = ~proc.model_listed],
                              "uncaught ImportError", "traceback")
               ELSE [proc EXCEPT !.pc = "imports", !.has_errors = TRUE]
    /\ UNCHANGED <<agentVars, sel, build, ws, saved>>

\* test, lines 158-190
TestImports ==
    /\ proc.cmd = "test"
    /\ proc.pc = "imports"
    /\ proc' = Exit([proc EXCEPT !.has_errors =
                         proc.has_errors
                         \/ ~import_from("build_graph", proc.importable)],
                    "0", "report")
    /\ UNCHANGED <<agentVars, sel, build, ws, saved>>

CliNext ==
    \/ CliProbe
    \/ CliImport
    \/ CliBuildGraph
    \/ ChatPrompt
    \/ CliInvoke
    \/ FrontLlmNode
    \/ LlmRaises
    \/ ToolNode
    \/ RecursionLimit
    \/ CliResult
    \/ TestProbe
    \/ TestImports

SpecCli == CliInit /\ [][CliNext]_vars

(***************************************************************************)
(* The websocket endpoint of web_app.py.  One handler runs per connection; *)
(* the handlers share the event loop and the graph built at import.  A     *)
(* handler gives way to the others at its awaits only: graph.invoke is a   *)
(* plain call, so a turn runs from its start to its end with no step of    *)
(* another handler in between.                                             *)
(***************************************************************************)
Conns == {1, 2}

MaxFrames == 2

\* The mark of the messages a client sends on connection c.
Mark(c) == IF c = 1 THEN "c1" ELSE "c2"

\* What receive_json gives: a message frame, one without "content", a
\* frame of another type, one without "type", or the end of the connection.
ClientFrames ==
    {"message", "message_no_content", "other", "no_type", "disconnect"}

NewConn ==
    [pc |-> "new", read |-> 0, msgs |-> 0, nStatus |-> 0, nReply |-> 0,
     nError |-> 0, nOther |-> 0, last |-> "none", marks |-> {},
     frame |-> "none"]

\* The /health endpoint before it is asked.
NoHealth == [status |-> "unasked", agent_initialized |-> FALSE]

WebInit ==
    /\ AgentInit
    /\ sel = SelIdle
    /\ build = [phase |-> "off"]
    /\ proc = [pc |-> "off"]
    /\ saved = [messages |-> <<>>]
    /\ ws \in [phase : {"serving"}, graph : {"compiled", "None"}, owner : {0},
               conn : {[c \in Conns |-> NewConn]}, health : {NoHealth}]

\* The frames the handler sends when the turn is over, lines 333-358.
reply_frames_lost(outcome) ==
    IF outcome = "failed" THEN <<>> ELSE <<"response">>

reply_frames(outcome) ==
    IF outcome = "failed" THEN <<"error">> ELSE <<"response">>

\* Where the handler is after the frames of a turn: the try of lines
\* 328-358 is inside the loop, so it reads the next frame.
after_turn_closing(outcome) ==
    IF outcome = "failed" THEN "closed" ELSE "recv"

after_turn(outcome) == "recv"

\* graph.invoke of line 331 is a synchronous call inside the coroutine: the
\* event loop runs no other handler until it returns.
loop_always_free == TRUE

loop_free == pc = "idle"

\* Lines 305-312: the connection is accepted; without a graph one error
\* frame is sent and the handler returns.
WsAccept(c) ==
    /\ ws.phase = "serving"
    /\ loop_free
    /\ ws.conn[c].pc = "new"
    /\ ws' = IF ws.graph = "None"
             THEN [ws EXCEPT !.conn[c].pc = "closed",
                             !.conn[c].nOther = @ + 1,
                             !.conn[c].last = "error"]
             ELSE [ws EXCEPT !.conn[c].pc = "recv"]
    /\ UNCHANGED <<agentVars, sel, build, proc, saved>>

\* Where the handler is after a frame that starts no turn: a frame of
\* another type fails the test of line 320 and the loop reads on; a KeyError
\* of data["type"] or data["content"], or the end of the connection, is
\* caught at line 360 and the connection is closed at line 363.
after_frame_closing(frame) == "closed"

after_frame(frame) == IF frame = "other" THEN "recv" ELSE "closed"

\* Lines 317-326: a frame is read; a message frame is answered with the
\* status frame, a KeyError or the end of the connection leaves the loop
\* for lines 360-363.
WsReceive(c) ==
    /\ ws.phase = "serving"
    /\ loop_free
    /\ ws.conn[c].pc = "recv"
    /\ ws.conn[c].read < MaxFrames
    /\ \E frame \in ClientFrames :
          ws' = IF frame = "message"
                THEN [ws EXCEPT !.conn[c].read = @ + 1,
                                !.conn[c].frame = frame,
                                !.conn[c].msgs = @ + 1,
                                !.conn[c].nStatus = @ + 1,
                                !.conn[c].last = "status",
                                !.conn[c].pc = "invoke"]
                ELSE [ws EXCEPT !.conn[c].read = @ + 1,
                                !.conn[c].frame = frame,
                                !.conn[c].pc = after_frame(frame)]
    /\ UNCHANGED <<agentVars, sel, build, proc, saved>>

\* Lines 330-331: graph.invoke({"messages": [HumanMessage(content=user_message)]})
WsInvoke(c) ==
    /\ ws.phase = "serving"
    /\ ws.conn[c].pc = "invoke"
    /\ StartTurn([messages |-> <<HumanMessage(<<"msg", Mark(c)>>)>>])
    /\ ws' = [ws EXCEPT !.owner = c, !.conn[c].pc = "turn"]
    /\ UNCHANGED <<writable, sel, build, proc, saved>>

\* Lines 333-358: the turn is over and its frame is sent; the state of the
\* turn is the handler's and is gone with the iteration.
WsReply(c) ==
    /\ ws.phase = "serving"
    /\ ws.owner = c
    /\ ws.conn[c].pc = "turn"
    /\ pc \in {"done", "failed"}
    /\ LET frames == reply_frames(pc)
           response == Last(state.messages).content
       IN  ws' = [ws EXCEPT !.owner = 0,
                            !.conn[c].pc = after_turn(pc),
                            !.conn[c].nReply = @ + Len(frames),
                            !.conn[c].nError =
                                IF frames = <<"error">> THEN @ + 1 ELSE @,
                            !.conn[c].last =
                                IF frames = <<>> THEN @ ELSE Last(frames),
                            !.conn[c].marks =
                                IF frames = <<"response">>
                                THEN @ \cup MarksOf(response) ELSE @]
    /\ saved' = checkpoint(state)
    /\ pc' = "idle"
    /\ state' = [messages |-> <<>>]
    /\ step' = 0
    /\ error' = "none"
    /\ modelCalls' = 0
    /\ toolSteps' = 0
    /\ lastInputLen' = 0
    /\ lastResponse' = NoMessage
    /\ UNCHANGED <<config, writable, sel, build, proc>>

\* Lines 365-371: GET /health
health_initialized(graph) == [status |-> "healthy", agent_initialized |-> TRUE]

health(graph) == [status |-> "healthy", agent_initialized |-> graph # "None"]

Health ==
    /\ ws.phase = "serving"
    /\ loop_free
    /\ ws.health = NoHealth
    /\ ws' = [ws EXCEPT !.health = health(ws.graph)]
    /\ UNCHANGED <<agentVars, sel, build, proc, saved>>

WebNext ==
    \/ Health
    \/ \E c \in Conns : WsAccept(c)
    \/ \E c \in Conns : WsReceive(c)
    \/ \E c \in Conns : WsInvoke(c)
    \/ FrontLlmNode
    \/ LlmRaises
    \/ ToolNode
    \/ RecursionLimit
    \/ \E c \in Conns : WsReply(c)

SpecWeb == WebInit /\ [][WebNext]_vars

(***************************************************************************)
(* Turns in which a call may never return.  build_graph gives the model    *)
(* client and the tools no timeout and invoke is called with none, so a    *)
(* node whose call does not return stays in that call.  The process takes  *)
(* a step whenever one is possible.                                        *)
(***************************************************************************)

\* The node "llm" when model_with_tools.invoke never returns.
LlmHangs ==
    /\ pc = "llm"
    /\ step < recursion_limit
    /\ lastInputLen' = Len(state.messages)
    /\ modelCalls' = modelCalls + 1
    /\ pc' = "blocked"
    /\ UNCHANGED <<state, step, config, error, writable, toolSteps,
                   lastResponse, sel, feVars>>

\* The node "tools" when a tool never returns.
ToolHangs ==
    /\ pc = "tools"
    /\ step < recursion_limit
    /\ Len(lastResponse.tool_calls) > 0
    /\ toolSteps' = toolSteps + 1
    /\ pc' = "blocked"
    /\ UNCHANGED <<state, step, config, error, writable, modelCalls,
                   lastInputLen, lastResponse, sel, feVars>>

LiveNext ==
    \/ Invoke
    \/ FrontLlmNode
    \/ LlmRaises
    \/ LlmHangs
    \/ ToolNode
    \/ ToolHangs
    \/ RecursionLimit
    \/ Return

SpecLive == Init /\ [][LiveNext]_vars /\ WF_vars(LiveNext)

(***************************************************************************)
(* One graph instance invoked twice with the same starting history, with   *)
(* other turns in between, as the loop of chat invokes it turn after turn. *)
(* The model client is a stub whose answer is a function of the history it *)
(* is given.                                                               *)
(***************************************************************************)
MaxBetween == 2

\* What a stub answers with: no request, a request, or an exception.
StubAnswers == {"none", "profile_table", "foo", "raise"}

\* A stub decides on the type of the last message of the history.
Stubs == [{"human", "ai", "tool"} -> StubAnswers]

stub_answer(stub, messages) == stub[Last(messages).type]

stub_requests(answer) ==
    IF answer = "none" THEN <<>>
    ELSE << [name |-> answer, args |-> Args("sales.csv", "", "", "")] >>

\* What is seen of a turn: the state it started in, and how it ended.
NoTurn ==
    [start |-> <<>>, outcome |-> "none", error |-> "none",
     returned |-> <<>>, modelCalls |-> 0, toolSteps |-> 0,
     lastInputLen |-> 0, lastResponse |-> NoMessage]

Seen(start) ==
    [start |-> start, outcome |-> pc, error |-> error,
     returned |-> state.messages, modelCalls |-> modelCalls,
     toolSteps |-> toolSteps, lastInputLen |-> lastInputLen,
     lastResponse |-> lastResponse]

RoundInit ==
    /\ AgentInit
    /\ sel = SelIdle
    /\ build = [phase |-> "off"]
    /\ ws = [phase |-> "off"]
    /\ saved = [messages |-> <<>>]
    /\ proc \in [pc : {"round"}, phase : {"first"}, stub : Stubs,
                 H : {<<HumanMessage(<<"prompt">>)>>}, adopted : {FALSE},
                 between : {0}, start : {<<>>}, first : {NoTurn},
                 second : {NoTurn}]

\* graph.invoke with the starting history, or with another one in between
RoundInvoke ==
    /\ proc.pc = "round"
    /\ proc.phase \in {"first", "between", "second"}
    /\ LET input == [messages |-> IF proc.phase = "between"
                                  THEN <<HumanMessage(<<"other">>)>>
                                  ELSE proc.H]
       IN  /\ StartTurn(input)
           /\ proc' = [proc EXCEPT !.start = initial_state(saved, input).messages]
    /\ UNCHANGED <<writable, sel, build, ws, saved>>

\* The node "llm" with the stub as the model client.
StubLlmNode ==
    /\ proc.pc = "round"
    /\ pc = "llm"
    /\ stub_answer(proc.stub, state.messages) # "raise"
    /\ LlmStep({stub_requests(stub_answer(proc.stub, state.messages))})

StubLlmRaises ==
    /\ proc.pc = "round"
    /\ pc = "llm"
    /\ stub_answer(proc.stub, state.messages) = "raise"
    /\ LlmRaises

\* invoke returns or raises; the caller goes on to its next turn.  After
\* the first turn it may take the history that turn returned as the
\* starting history and begin again.
RoundReturn ==
    /\ proc.pc = "round"
    /\ pc \in {"done", "failed"}
    /\ pc' = "idle"
    /\ saved' = checkpoint(state)
    /\ \/ /\ proc.phase = "first"
          /\ \E next \in {"between", "second"} :
                proc' = [proc EXCEPT !.first = Seen(proc.start), !.phase = next]
       \/ /\ proc.phase = "first"
          /\ pc = "done"
          /\ ~proc.adopted
          /\ proc' = [proc EXCEPT !.H = state.messages, !.adopted = TRUE]
       \/ /\ proc.phase = "between"
          /\ \E next \in {"between", "second"} :
                /\ next = "between" => proc.between + 1 < MaxBetween
                /\ proc' = [proc EXCEPT !.between = @ + 1, !.phase = next]
       \/ /\ proc.phase = "second"
          /\ proc' = [proc EXCEPT !.second = Seen(proc.start),
                                  !.phase = "compared"]
    /\ UNCHANGED <<state, step, config, error, writable, modelCalls,
                   toolSteps, lastInputLen, lastResponse, sel, build, ws>>

RoundNext ==
    \/ RoundInvoke
    \/ StubLlmNode
    \/ StubLlmRaises
    \/ ToolNode
    \/ RecursionLimit
    \/ RoundReturn

SpecRound == RoundInit /\ [][RoundNext]_vars

(***************************************************************************)
(* plot_chart on a file system.  Paths are sequences of characters, so     *)
(* that os.path.join and the place a file lands in are computed; a         *)
(* directory or a file is the sequence of the components of its path.      *)
(***************************************************************************)

\* str.split(sep)
RECURSIVE split(_, _)
split(str, sep) ==
    IF str = <<>> THEN << <<>> >>
    ELSE LET rest == split(Tail(str), sep)
         IN  IF Head(str) = sep
             THEN << <<>> >> \o rest
             ELSE << <<Head(str)>> \o Head(rest) >> \o Tail(rest)

\* os.path.join(a, b): an absolute b discards a
os_path_join(a, b) ==
    IF b # <<>> /\ Head(b) = "/" THEN b
    ELSE IF a = <<>> \/ Last(a) = "/" THEN a \o b
    ELSE a \o <<"/">> \o b

\* The components a path resolves to: empty ones and "." dropped, ".."
\* taking the last one away.
RECURSIVE resolve(_, _)
resolve(parts, acc) ==
    IF parts = <<>> THEN acc
    ELSE IF Head(parts) = <<>> \/ Head(parts) = <<".">>
        THEN resolve(Tail(parts), acc)
    ELSE IF Head(parts) = <<".", ".">>
        THEN resolve(Tail(parts),
                     IF acc = <<>> THEN acc ELSE SubSeq(acc, 1, Len(acc) - 1))
    ELSE resolve(Tail(parts), Append(acc, Head(parts)))

\* The place an absolute path names.
place(path) == resolve(split(path, "/"), <<>>)

\* The directory a place lies in.
parent(p) == IF p = <<>> THEN p ELSE SubSeq(p, 1, Len(p) - 1)

\* The directories on the way to a place, the place included.
ancestors(p) == {SubSeq(p, 1, n) : n \in 0..Len(p)}

\* Figure.savefig(fname): a name without an extension gets the default one
has_extension(path) ==
    LET name == Last(split(path, "/"))
    IN  \E i \in 1..(Len(name) - 1) : name[i] = "."

savefig_target(path) ==
    IF has_extension(path) THEN path ELSE path \o <<".", "p", "n", "g">>

\* os.getenv("OUTPUT_DIR", "/app/outputs")
output_dir == <<"/", "a", "p", "p", "/", "o", "u", "t", "p", "u", "t", "s">>

Saved_plot_to == <<"S", "a", "v", "e", "d", " ", "p", "l", "o", "t", " ", "t", "o", " ">>

\* The output names a request may give.
PlotOuts ==
    { <<>>,
      <<"p", "l", "o", "t", ".", "p", "n", "g">>,
      <<"c", "h", "a", "r", "t">>,
      <<"/", "t", "m", "p", "/", "x", ".", "p", "n", "g">>,
      <<".", ".", "/", "x", ".", "p", "n", "g">>,
      <<"s", "u", "b", "/", "x", ".", "p", "n", "g">> }

\* The directories there are before the call.
PlotDirs ==
    { {<<>>, <<<<"a", "p", "p">>>>, <<<<"t", "m", "p">>>>},
      {<<>>, <<<<"a", "p", "p">>>>, <<<<"t", "m", "p">>>>, <<<<"a", "p", "p">>, <<"o", "u", "t", "p", "u", "t", "s">>>>} }

PlotInit ==
    /\ AgentInit
    /\ sel = SelIdle
    /\ build = [phase |-> "off"]
    /\ ws = [phase |-> "off"]
    /\ saved = [messages |-> <<>>]
    /\ proc \in [pc : {"plot"}, file : {"sales.csv", "nofile.csv"},
                 x : {"Date", "Nope"}, y : {"Value", "Nope"}, out : PlotOuts,
                 dirs : PlotDirs, files : {{}}, writable : BOOLEAN,
                 raised : {FALSE}, value : {<<>>}]

\* plot_chart(file, x, y, out), lines 39-44, with _ensure_outputs_path
PlotChart ==
    /\ proc.pc = "plot"
    /\ LET df == read_csv(proc.file)
           made == proc.dirs \cup ancestors(place(output_dir))
           path == os_path_join(output_dir,
                                IF proc.out = <<>> THEN <<"p", "l", "o", "t", ".", "p", "n", "g">> ELSE proc.out)
           target == place(savefig_target(path))
           Raise(e) == [proc EXCEPT !.pc = "returned", !.raised = TRUE,
                                    !.value = <<e>>]
       IN  proc' =
             IF df.raised THEN Raise(df.value[1])
             ELSE IF proc.x \notin df.columns \/ proc.y \notin df.columns
                 THEN Raise("KeyError")
             ELSE IF place(output_dir) \notin proc.dirs /\ ~proc.writable
                 THEN Raise("PermissionError")
             ELSE IF parent(target) \notin made
                 THEN [Raise("FileNotFoundError") EXCEPT !.dirs = made]
             ELSE IF ~proc.writable \/ target \in made
                 THEN [Raise("PermissionError") EXCEPT !.dirs = made]
             ELSE [proc EXCEPT !.pc = "returned", !.dirs = made,
                               !.files = @ \cup {target},
                               !.value = Saved_plot_to \o path]
    /\ UNCHANGED <<agentVars, sel, build, ws, saved>>

PlotNext == PlotChart

SpecPlot == PlotInit /\ [][PlotNext]_vars

(***************************************************************************)
(* Claims about the agent loop                                             *)
(***************************************************************************)
InitialHistory == <<HumanMessage(<<"prompt">>)>>

Requested == Len(lastResponse.tool_calls)

\* The model is about to be invoked again in this turn.
ReInvocation == pc = "llm" /\ modelCalls >= 1

\* C1: the message sequence handed to the model on invocation k+1 is the
\* sequence handed on invocation k, then response k, then the tool results
\* of step k: it starts with the user message and nothing is dropped, and
\* the returned history is the last sequence handed plus the final response.
C1_HistoryIntact ==
    /\ ReInvocation =>
          /\ Len(state.messages) = lastInputLen + 1 + Requested
          /\ state.messages[1] = InitialHistory[1]
    /\ (pc = "done" /\ modelCalls >= 2) =>
          /\ Len(state.messages) = lastInputLen + 1
          /\ state.messages[1] = InitialHistory[1]
          /\ Last(state.messages) = lastResponse

\* The last n messages of msgs answer the n requests of response, one tool
\* message per request, in the order of the requests and tagged with their ids.
Resolved(response, msgs) ==
    LET n == Len(response.tool_calls)
    IN  /\ Len(msgs) >= n
        /\ \A i \in 1..n :
              /\ msgs[Len(msgs) - n + i].type = "tool"
              /\ msgs[Len(msgs) - n + i].tool_call_id = response.tool_calls[i].id
        /\ \A i \in 1..n :
              Cardinality({j \in 1..Len(msgs) :
                  msgs[j].tool_call_id = response.tool_calls[i].id}) = 1

C3_NoToolTurn ==
    (pc = "done" /\ modelCalls = 1) =>
        /\ toolSteps = 0
        /\ Len(state.messages) = Len(InitialHistory) + 1

\* C4: a turn runs under a maximum number of iterations that the front end
\* passes to the graph, and fails with an iteration-limit error when that
\* maximum is reached.
C4_ConfiguredIterationLimit ==
    pc \in {"llm", "tools", "done", "failed"} =>
        /\ config # NoConfig
        /\ step <= recursion_limit

HasUnknownRequest(response) ==
    \E i \in 1..Len(response.tool_calls) : response.tool_calls[i].name \notin tools

\* C5: a request naming no registered tool fails the turn with UnknownTool:
\* it is not turned into a tool result and the model is not invoked again.
C5_UnknownToolFailsTurn ==
    HasUnknownRequest(lastResponse) =>
        /\ pc # "llm"
        /\ \A j \in 1..Len(state.messages) : state.messages[j].type # "tool"
        /\ pc = "failed" => error = "UnknownTool"

\* The request raises when its registered tool is executed.
Raises(call) == call.name \in tools /\ invoke_tool(call, writable).raised

\* C6: when a registered tool raises, the error becomes the text of that
\* request's tool result, the turn does not fail because of it, and the
\* model can be invoked again with that result in the state.
C6_ToolErrorsCaptured ==
    /\ error # "ToolException"
    /\ ReInvocation =>
          /\ step < recursion_limit
          /\ \A i \in 1..Requested :
                Raises(lastResponse.tool_calls[i]) =>
                    /\ Len(state.messages) >= i
                    /\ state.messages[Len(state.messages) - Requested + i] =
                          ToolMessage(<<"Error">> \o
                                  invoke_tool(lastResponse.tool_calls[i], writable).value,
                              lastResponse.tool_calls[i].id, "error")

C6_Witness ==
    /\ ReInvocation
    /\ ~writable
    /\ \E i \in 1..Requested :
          /\ lastResponse.tool_calls[i].name = "plot_chart"
          /\ Raises(lastResponse.tool_calls[i])
          /\ state.messages[Len(state.messages) - Requested + i].content[2] =
                "PermissionError"

(***************************************************************************)
(* Claims about the model selector                                         *)
(***************************************************************************)
Selected == sel.phase = "selected"

OverrideSupplied ==
    /\ sel.env.LLM_PROVIDER.set /\ sel.env.LLM_PROVIDER.value # <<>>
    /\ sel.env.LLM_MODEL.set /\ sel.env.LLM_MODEL.value # <<>>

AnyRemote ==
    \/ sel.available_llms.openai
    \/ sel.available_llms.anthropic
    \/ sel.available_llms.azure_openai

\* C7: with both LLM_PROVIDER and LLM_MODEL set, the selector returns that
\* pair as it is, for every availability, capacity and prefer_local, and
\* neither probes the local runtime nor pulls from it.
C7_OverrideVerbatim ==
    (Selected /\ OverrideSupplied) =>
        /\ sel.result.provider = sel.env.LLM_PROVIDER.value
        /\ sel.result.model = sel.env.LLM_MODEL.value
        /\ ~sel.result.probed
        /\ ~sel.result.pulled

C7_Witness ==
    /\ Selected /\ OverrideSupplied
    /\ sel.result.model = custom_model
    /\ sel.available_llms.ollama = <<>>
    /\ sel.available_llms.openai
    /\ sel.server.tags = "200"

\* C8: with no override and prefer_local false, the selector returns the
\* first of openai, anthropic, azure_openai whose flag is set, with that
\* provider's default model, whatever local models there are.
C8_RemotePriority ==
    (Selected /\ ~OverrideSupplied /\ ~sel.prefer_local /\ AnyRemote) =>
        /\ sel.available_llms.openai =>
              /\ sel.result.provider = P_openai
              /\ sel.result.model = gpt_4o_mini
        /\ (~sel.available_llms.openai /\ sel.available_llms.anthropic) =>
              /\ sel.result.provider = P_anthropic
              /\ sel.result.model = claude_3_haiku
        /\ (~sel.available_llms.openai /\ ~sel.available_llms.anthropic) =>
              /\ sel.result.provider = P_azure_openai
              /\ sel.result.model = gpt_4o_mini

C8_Witness ==
    /\ Selected /\ ~OverrideSupplied /\ ~sel.prefer_local
    /\ ~sel.available_llms.openai
    /\ sel.available_llms.anthropic
    /\ sel.available_llms.azure_openai
    /\ sel.available_llms.ollama # <<>>
    /\ sel.result.provider = P_anthropic

\* The part of a model name before its first ":".
NamePart(name) ==
    IF \E i \in 1..Len(name) : name[i] = ":"
    THEN SubSeq(name, 1, (CHOOSE i \in 1..Len(name) :
                            /\ name[i] = ":"
                            /\ \A j \in 1..(i - 1) : name[j] # ":") - 1)
    ELSE name

\* A case-sensitive prefix match of the name part on the family.
FamilyMatch(name, family) ==
    /\ Len(family) <= Len(NamePart(name))
    /\ SubSeq(NamePart(name), 1, Len(family)) = family

Least(S) == CHOOSE i \in S : \A j \in S : i <= j

\* C9: with no override, prefer_local true and local models listed, the
\* selector returns the first listed model of the recommended family, else
\* the first listed model of a catalog family, else the first listed model;
\* remote availability plays no part.
C9_LocalChoice ==
    (Selected /\ ~OverrideSupplied /\ sel.prefer_local
        /\ sel.available_llms.ollama # <<>>) =>
        LET ollama == sel.available_llms.ollama
            rec == {i \in 1..Len(ollama) :
                      FamilyMatch(ollama[i],
                          NamePart(sel.system_capacity.recommended_model))}
            cat == {i \in 1..Len(ollama) :
                      \E k \in 1..Len(TOOL_CAPABLE_MODELS_ollama) :
                          FamilyMatch(ollama[i],
                              NamePart(TOOL_CAPABLE_MODELS_ollama[k]))}
            pick == IF rec # {} THEN Least(rec)
                    ELSE IF cat # {} THEN Least(cat)
                    ELSE 1
        IN  /\ sel.result.provider = P_ollama
            /\ sel.result.model = ollama[pick]

C9_Witness ==
    /\ Selected /\ ~OverrideSupplied /\ sel.prefer_local
    /\ Len(sel.available_llms.ollama) = 2
    /\ sel.available_llms.openai
    /\ sel.result.provider = P_ollama
    /\ sel.result.model = sel.available_llms.ollama[2]
    /\ ~FamilyMatch(sel.result.model,
                    NamePart(sel.system_capacity.recommended_model))

\* The local path of the selector is taken.
LocalPath == ~OverrideSupplied /\ (sel.prefer_local \/ ~AnyRemote)

\* The recommended model is there after the selector's attempt: the runtime
\* lists it, or the pull ended well.
Provisioned ==
    /\ sel.server.tags = "200"
    /\ \/ \E i \in 1..Len(sel.server.existing) :
             sel.server.existing[i] = sel.system_capacity.recommended_model
       \/ sel.server.pull = "success"

\* C10: on the local path with no local model listed, the selector attempts
\* to provision the recommended model only if the runtime is reachable, and
\* returns ("ollama", recommended) exactly when provisioning succeeded.
C10_ProvisionOnlyOnSuccess ==
    (Selected /\ LocalPath /\ sel.available_llms.ollama = <<>>) =>
        /\ sel.result.pulled => sel.server.tags = "200"
        /\ sel.result.provider = P_ollama <=> Provisioned
        /\ sel.result.provider = P_ollama =>
              sel.result.model = sel.system_capacity.recommended_model

\* The selector returns no model.
NoModel == sel.result.provider = NoProvider /\ sel.result.model = <<>>

\* C24: with no override, the selector returns no model only when no remote
\* flag is set, no local model is listed and the recommended model could not
\* be provisioned; for prefer_local false and true alike.
C24_NoneOnlyWhenNothingAvailable ==
    (Selected /\ ~OverrideSupplied /\ NoModel) =>
        /\ ~AnyRemote
        /\ sel.available_llms.ollama = <<>>
        /\ ~Provisioned

\* The pull of the recommended model reported success to the selector: the
\* runtime answered the listing, and the model was listed or the pull request
\* and the reading of its answer raised nothing.
ReportedSuccess ==
    /\ sel.server.tags = "200"
    /\ \/ \E i \in 1..Len(sel.server.existing) :
             contains(sel.server.existing[i], sel.system_capacity.recommended_model)
       \/ sel.server.pull # "exception"

\* C25: with no override, a returned remote provider has its availability
\* flag set, and a returned "ollama" model is an element of the supplied
\* local list or the recommended model whose provisioning reported success.
C25_BackedByAvailability ==
    (Selected /\ ~OverrideSupplied /\ ~NoModel) =>
        /\ sel.result.provider \in {P_openai, P_anthropic, P_azure_openai, P_ollama}
        /\ sel.result.provider = P_openai => sel.available_llms.openai
        /\ sel.result.provider = P_anthropic => sel.available_llms.anthropic
        /\ sel.result.provider = P_azure_openai => sel.available_llms.azure_openai
        /\ sel.result.provider = P_ollama =>
              \/ \E i \in 1..Len(sel.available_llms.ollama) :
                    sel.available_llms.ollama[i] = sel.result.model
              \/ /\ sel.result.model = sel.system_capacity.recommended_model
                 /\ sel.result.pulled
                 /\ ReportedSuccess

C25_Witness ==
    /\ Selected /\ ~OverrideSupplied
    /\ sel.prefer_local
    /\ sel.available_llms.ollama = <<>>
    /\ sel.available_llms.openai
    /\ sel.result.provider = P_ollama
    /\ sel.result.model = sel.system_capacity.recommended_model
    /\ sel.server.existing = <<>>
    /\ sel.server.pull = "success"

\* C26: with no override and no remote flag set, the selector returns the
\* same provider and model for prefer_local false and true, given the same
\* local list, capacity and local runtime.
C26_PreferLocalIrrelevant ==
    (Selected /\ ~OverrideSupplied /\ ~AnyRemote) =>
        LET other == select_best_model(sel.env, sel.available_llms,
                         sel.system_capacity, ~sel.prefer_local, sel.server)
        IN  /\ sel.result.provider = other.provider
            /\ sel.result.model = other.model

C26_Witness ==
    /\ Selected /\ ~OverrideSupplied /\ ~AnyRemote
    /\ sel.prefer_local
    /\ Len(sel.available_llms.ollama) = 2
    /\ sel.result.provider = P_ollama
    /\ sel.result.model = sel.available_llms.ollama[2]

\* One of LLM_PROVIDER and LLM_MODEL is set, and they are not both set to
\* non-empty values.
HalfOverride ==
    /\ sel.env.LLM_PROVIDER.set \/ sel.env.LLM_MODEL.set
    /\ ~OverrideSupplied

\* C27: when only one of LLM_PROVIDER and LLM_MODEL is set to a non-empty
\* value, the selector ignores it: it returns the provider and model it
\* returns with neither variable set.
C27_HalfOverrideIgnored ==
    (Selected /\ HalfOverride) =>
        LET neither == select_best_model([LLM_PROVIDER |-> None, LLM_MODEL |-> None],
                           sel.available_llms, sel.system_capacity,
                           sel.prefer_local, sel.server)
        IN  /\ sel.result.provider = neither.provider
            /\ sel.result.model = neither.model

C27_Witness ==
    /\ Selected
    /\ sel.env.LLM_PROVIDER = Str(P_ollama)
    /\ sel.env.LLM_MODEL = None
    /\ ~sel.prefer_local
    /\ sel.available_llms.anthropic
    /\ sel.result.provider = P_anthropic

(***************************************************************************)
(* Claims about the start-up                                               *)
(***************************************************************************)
Configured == build.phase \in {"configured", "client", "bound", "returned", "raised"}

\* The selection found no provider or no model.
SelectionExhausted == Configured /\ build.config.raised

ClientConstructed == build.phase \in {"client", "bound", "returned"}

GraphReturned == build.phase = "returned"

\* C11: when the selection exhausts every path, get_llm_config fails,
\* build_graph returns no graph and no model client is constructed.
C11_ExhaustedSelectionAborts ==
    SelectionExhausted => ~ClientConstructed /\ ~GraphReturned

RemoteProviders == {P_openai, P_anthropic, P_azure_openai}

HasPrefix(name, prefix) ==
    /\ Len(prefix) <= Len(name)
    /\ SubSeq(name, 1, Len(prefix)) = prefix

\* C13: the configuration reports tool support for every remote provider
\* the selector returns, and for the local provider exactly when the model
\* name has the family of a catalog entry as a prefix.
C13_ToolSupportPresumed ==
    (Configured /\ ~build.config.raised) =>
        /\ build.config.provider \in RemoteProviders =>
              build.config.supports_tools
        /\ build.config.provider = P_ollama =>
              (build.config.supports_tools <=>
                  \E k \in 1..Len(TOOL_CAPABLE_MODELS_ollama) :
                      HasPrefix(build.config.model,
                                NamePart(TOOL_CAPABLE_MODELS_ollama[k])))

\* bind_tools is not called, or it raises.
NoBinding_Case == ~build.supports_tools \/ build.bind = "raises"

\* C14: when bind_tools raises, or the model is reported as not supporting
\* tools, build_graph raises nothing and the model node of the graph it
\* returns uses the client without tools.
C14_BindRejectionTolerated ==
    /\ build.phase = "raised" => build.model.raised
    /\ (build.phase \in {"bound", "returned"} /\ NoBinding_Case) =>
          /\ build.model_with_tools.client = build.model
          /\ ~build.model_with_tools.tools
    /\ (build.phase \in {"bound", "returned"} /\ ~NoBinding_Case) =>
          build.model_with_tools.tools

C14_Witness ==
    /\ GraphReturned
    /\ build.supports_tools /\ build.bind = "raises"
    /\ ~build.model_with_tools.tools
    /\ ~build.config.raised

(***************************************************************************)
(* Claims about two calls of the selector                                  *)
(***************************************************************************)
\* C12: two calls of select_best_model with the same availability, the same
\* capacity, the same prefer_local and no override return the same
\* provider and the same model.
C12_Deterministic ==
    sel.phase = "selected2" =>
        /\ sel.result.provider = sel.result2.provider
        /\ sel.result.model = sel.result2.model

(***************************************************************************)
(* Claims about the command line                                           *)
(***************************************************************************)
Exited == proc.pc = "exited"

\* C19: the test command ends through its final exit(0) on every path,
\* never with another status and never with an uncaught exception.
C19_TestExitsZero ==
    (proc.cmd = "test" /\ Exited) => proc.exit = "0"

\* The start-up of run or chat fails: the probe raises or answers other
\* than 200, the agent modules cannot be imported, or build_graph raises.
StartupFailure ==
    /\ proc.cmd \in {"run", "chat"}
    /\ \/ proc.tags # "200"
       \/ ~proc.importable
       \/ proc.build_raises

\* C20: when the start-up of run or chat fails, the process runs no turn
\* and, once ended, has printed an error and exited with a nonzero status.
C20_StartupFailureExits ==
    StartupFailure =>
        /\ ~proc.ranTurn
        /\ proc.pc \notin {"invoke", "turn", "prompt"}
        /\ pc = "idle"
        /\ Exited => proc.exit = "1" /\ proc.out = "error"

C20_Witness ==
    /\ proc.cmd = "chat"
    /\ proc.tags = "500"
    /\ proc.importable /\ ~proc.build_raises
    /\ Exited /\ proc.exit = "1"

\* A turn of the chat command has failed and its result is due.
ChatTurnFailed == proc.cmd = "chat" /\ proc.pc = "turn" /\ pc = "failed"

\* C18: a failure inside a turn does not end the process: after a failed
\* turn chat reads the next prompt.
C18_TurnFailureIsLocal ==
    [][ChatTurnFailed => (proc'.pc = "prompt" /\ proc'.exit = "running")]_vars

(***************************************************************************)
(* Claims about the websocket channel                                      *)
(***************************************************************************)
Serving == ws.phase = "serving"

ErrorSent(c) ==
    /\ Serving
    /\ ws'.conn[c].last = "error"
    /\ ws'.conn[c].nReply + ws'.conn[c].nOther
          > ws.conn[c].nReply + ws.conn[c].nOther

\* C16: whenever an error frame is sent the connection stays open and the
\* handler reads the next frame.
C16_ErrorKeepsOpen ==
    [][\A c \in Conns : ErrorSent(c) => ws'.conn[c].pc = "recv"]_vars

\* An error frame is sent on connection c for a turn that failed.
TurnErrorSent(c) == ErrorSent(c) /\ ws'.conn[c].nError > ws.conn[c].nError

\* C16, restated: whenever the error frame of a failed turn is sent the
\* connection stays open and the handler reads the next frame; the error
\* frame of a server without a graph is followed by the handler's return.
C16_TurnErrorKeepsOpen ==
    [][\A c \in Conns :
          /\ TurnErrorSent(c) => ws'.conn[c].pc = "recv"
          /\ (ErrorSent(c) /\ ~TurnErrorSent(c)) =>
                (ws.graph = "None" /\ ws'.conn[c].pc = "closed")]_vars

\* After the error frame of a turn the next message frame was received and
\* answered.
C16_Witness ==
    /\ Serving
    /\ ws.conn[2].nError >= 1
    /\ ws.conn[2].msgs = 2
    /\ ws.conn[2].nReply = 2
    /\ ws.conn[2].last = "response"

\* C17: the history of a turn holds only messages that derive from the
\* connection the turn runs for, and so does every response sent on it.
C17_ConnectionsIsolated ==
    Serving =>
        /\ \A c \in Conns : ws.conn[c].marks \subseteq {Mark(c)}
        /\ ws.owner # 0 =>
              /\ MarksIn(state.messages) \subseteq {Mark(ws.owner)}
              /\ MarksOf(lastResponse.content) \subseteq {Mark(ws.owner)}

\* A turn of connection 2 runs between the status frame and the turn of
\* connection 1, after a turn of connection 1 that was answered.
C17_Witness ==
    /\ Serving
    /\ ws.owner = 2
    /\ pc = "done"
    /\ MarksOf(lastResponse.content) = {"c2"}
    /\ ws.conn[1].pc = "invoke"
    /\ ws.conn[1].marks = {"c1"}

(***************************************************************************)
(* Claims about turns whose calls may not return                           *)
(***************************************************************************)
TurnStarted == pc \in {"llm", "tools", "blocked"}

TurnOver == pc \in {"done", "failed"}

\* C21: every started turn eventually reaches completion or failure, also
\* when a model call or a tool call of it never returns.
C21_TurnsEnd == TurnStarted ~> TurnOver

(***************************************************************************)
(* Claims about turns on one graph instance                                *)
(***************************************************************************)
\* C22: two invocations of the graph with the same starting history start
\* in the same state and end the same way (outcome, returned history,
\* numbers of model and tool invocations, last input and last response),
\* whatever turns ran in between.
C22_NoStateBetweenTurns ==
    (proc.pc = "round" /\ proc.phase = "compared") =>
        /\ proc.second = proc.first
        /\ proc.first.start = proc.H

C22_Witness ==
    /\ proc.pc = "round" /\ proc.phase = "compared"
    /\ proc.adopted
    /\ proc.between = 2
    /\ proc.first.outcome = "done"
    /\ proc.first.toolSteps >= 1
    /\ proc.second.modelCalls >= 2

(***************************************************************************)
(* Claims about plot_chart                                                 *)
(***************************************************************************)
PlotReturned == proc.pc = "returned" /\ ~proc.raised

\* The path named in the text plot_chart returns.
NamedPath == SubSeq(proc.value, Len(Saved_plot_to) + 1, Len(proc.value))

\* A place lies under a directory.
Under(p, dir) == Len(p) > Len(dir) /\ SubSeq(p, 1, Len(dir)) = dir

\* C23: after plot_chart returns, the output directory exists, a file
\* exists at the path named in the returned text, that path is the output
\* directory joined with the requested name ("plot.png" when it is empty),
\* and it lies under the output directory.
C23_PlotUnderOutputDir ==
    PlotReturned =>
        /\ place(output_dir) \in proc.dirs
        /\ place(NamedPath) \in proc.files
        /\ NamedPath = output_dir \o <<"/">> \o
               (IF proc.out = <<>> THEN <<"p", "l", "o", "t", ".", "p", "n", "g">> ELSE proc.out)
        /\ Under(place(NamedPath), place(output_dir))


\* A turn of connection c is between its status frame and its response or
\* error frame.
Answering(c) == ws.conn[c].pc \in {"invoke", "turn"}

\* The handler of connection c is inside graph.invoke.
InsideInvoke(c) == ws.conn[c].pc = "turn"

\* Nothing is received from or sent to connection d in this step.
Quiet(d) == ws'.conn[d] = ws.conn[d]

\* C28 as stated: at most one turn is inside graph.invoke at any time, and
\* between the status frame of a turn and its response or error frame no
\* frame of another connection is received or sent.
C28_NoFrameWhileAnswering ==
    [][\A c \in Conns : Answering(c) =>
          \A d \in Conns \ {c} : ~InsideInvoke(d) /\ Quiet(d)]_vars

\* C28: at most one turn is inside graph.invoke at any time, and while a
\* turn is inside graph.invoke no frame of another connection is received
\* or sent.
C28_NoFrameWhileInvoking ==
    [][\A c \in Conns : InsideInvoke(c) =>
          \A d \in Conns \ {c} : ~InsideInvoke(d) /\ Quiet(d)]_vars

C28_Witness ==
    /\ Serving
    /\ InsideInvoke(1)
    /\ pc = "tools"
    /\ ws.conn[2].pc = "invoke"
    /\ ws.conn[2].nStatus = 1


\* The graph of the server process failed to initialise at import time.
NoGraph == Serving /\ ws.graph = "None"

\* C29: in a server without a graph every connection is accepted and gets
\* exactly one error frame, and the handler returns without reading a
\* client frame and without invoking the agent; /health answers
\* agent_initialized false in exactly that case.
C29_NoGraphOneError ==
    /\ NoGraph =>
          /\ pc = "idle" /\ modelCalls = 0 /\ toolSteps = 0
          /\ \A c \in Conns :
                /\ ws.conn[c].pc \in {"new", "closed"}
                /\ ws.conn[c].read = 0
                /\ ws.conn[c].nStatus = 0
                /\ ws.conn[c].nReply = 0
                /\ ws.conn[c].pc = "closed" =>
                      ws.conn[c].nOther = 1 /\ ws.conn[c].last = "error"
    /\ (Serving /\ ws.health # NoHealth) =>
          (ws.health.agent_initialized = FALSE <=> ws.graph = "None")

C29_Witness ==
    /\ NoGraph
    /\ \A c \in Conns : ws.conn[c].pc = "closed" /\ ws.conn[c].last = "error"
    /\ ws.health.status = "healthy"
    /\ ~ws.health.agent_initialized


\* The handler of connection c reads a frame in this step.
Reads(c) == ws'.conn[c].read = ws.conn[c].read + 1

\* No frame is sent on connection c in this step.
NothingSent(c) ==
    /\ ws'.conn[c].nStatus = ws.conn[c].nStatus
    /\ ws'.conn[c].nReply = ws.conn[c].nReply
    /\ ws'.conn[c].nError = ws.conn[c].nError
    /\ ws'.conn[c].nOther = ws.conn[c].nOther
    /\ ws'.conn[c].last = ws.conn[c].last

\* C30: a frame with a type other than "message" is ignored: nothing is
\* sent back, the agent is not invoked and the handler reads on; a frame
\* without "type", or a message frame without "content", ends the loop and
\* closes the connection without an error frame.
C30_OtherFramesIgnored ==
    [][\A c \in Conns : (Serving /\ Reads(c)) =>
          /\ ws'.conn[c].frame = "other" =>
                /\ NothingSent(c)
                /\ ws'.conn[c].pc = "recv"
                /\ pc' = "idle" /\ modelCalls' = modelCalls
          /\ ws'.conn[c].frame \in {"no_type", "message_no_content"} =>
                /\ NothingSent(c)
                /\ ws'.conn[c].pc = "closed"
                /\ pc' = "idle" /\ modelCalls' = modelCalls]_vars

C30_Witness ==
    /\ Serving
    /\ ws.conn[1].frame = "other"
    /\ ws.conn[1].pc = "recv"
    /\ ws.conn[1].read = 1
    /\ ws.conn[2].frame = "message_no_content"
    /\ ws.conn[2].pc = "closed"
    /\ ws.conn[2].nStatus = 1
    /\ ws.conn[2].nReply = 1

====
